---- MODULE Spec2Model ----
(***************************************************************************)
(* Model of crates/pop-parachains/src/build.rs: building a parachain node, *)
(* locating its binary, generating the plain and raw chain specifications, *)
(* exporting the genesis wasm and state, and classifying a project.        *)
(*                                                                         *)
(* Text is a sequence of one-character strings.  Unsigned integers wider   *)
(* than TLC's native integers are little-endian sequences of             *)
(* 16-bit limbs: a u32 has two limbs, a u64 has four.                      *)
(***************************************************************************)
EXTENDS Integers, Sequences, FiniteSets, TLC

VARIABLES fs, last, hist, calls

vars == <<fs, last, hist, calls>>

\* the number of calls a run of the model makes
MaxCalls == 2

\* Option<T>: None is the empty sequence, Some(x) the sequence holding x.
None == <<>>

Some(x) == <<x>>

IsSome(o) == o # None

Unwrap(o) == o[1]

\* ------------------------------------------------------------------------
\* Fixed-width unsigned integers (u32, u64) and their decimal rendering
\* ------------------------------------------------------------------------

LimbBits == 2 ^ 4

Base == 2 ^ LimbBits

\* `para_id: u32`
U32Bits == 32

\* `Result<Option<u64>>`
U64Bits == 64

U32Limbs == U32Bits \div LimbBits

U64Limbs == U64Bits \div LimbBits

Zero(n) == [i \in 1..n |-> 0]

IsZero(l) == \A i \in 1..Len(l) : l[i] = 0

\* l * 10 + d over the limbs from position i on, with carry c;
\* the carry out of the top limb is reported as overflow.
RECURSIVE MulAdd(_, _, _)
MulAdd(l, i, c) ==
    IF i > Len(l) THEN [limbs |-> l, carry |-> c]
    ELSE LET cur == l[i] * 10 + c
         IN  MulAdd([l EXCEPT ![i] = cur % Base], i + 1, cur \div Base)

\* The value of the decimal digits ds[i..] added to acc, in n limbs.
RECURSIVE FromDecFrom(_, _, _, _)
FromDecFrom(ds, i, acc, over) ==
    IF i > Len(ds) THEN [limbs |-> acc, overflow |-> over]
    ELSE LET r == MulAdd(acc, 1, ds[i])
         IN  FromDecFrom(ds, i + 1, r.limbs, over \/ r.carry # 0)

FromDec(ds, n) == FromDecFrom(ds, 1, Zero(n), FALSE)

\* l \div 10 and l % 10, dividing from the top limb (position i) down.
RECURSIVE DivMod10(_, _, _)
DivMod10(l, i, rem) ==
    IF i = 0 THEN [limbs |-> l, rem |-> rem]
    ELSE LET cur == rem * Base + l[i]
         IN  DivMod10([l EXCEPT ![i] = cur \div 10], i - 1, cur % 10)

RECURSIVE DecDigits(_)
DecDigits(l) ==
    IF IsZero(l) THEN <<>>
    ELSE LET r == DivMod10(l, Len(l), 0)
         IN  Append(DecDigits(r.limbs), r.rem)

DigitChars == <<"0", "1", "2", "3", "4", "5", "6", "7", "8", "9">>

IsDigit(c) == \E d \in 1..Len(DigitChars) : DigitChars[d] = c

DigitOf(c) == (CHOOSE d \in 1..Len(DigitChars) : DigitChars[d] = c) - 1

\* `{}` of format! applied to an unsigned integer: its decimal digits,
\* no sign, no leading zeros, "0" for zero.
Display(l) ==
    IF IsZero(l) THEN <<"0">>
    ELSE LET ds == DecDigits(l) IN [i \in 1..Len(ds) |-> DigitChars[ds[i] + 1]]

\* `x as u32` on a u64: the low 32 bits.
AsU32(l) == SubSeq(l, 1, U32Limbs)

\* `u32.into()` a u64: zero extension.
IntoU64(l) == l \o Zero(U64Limbs - U32Limbs)

U32(ds) == FromDec(ds, U32Limbs).limbs

\* ------------------------------------------------------------------------
\* Text
\* ------------------------------------------------------------------------

Q == "\""

KeyParaId == <<"p", "a", "r", "a", "_", "i", "d">>

KeyParachainId == <<"p", "a", "r", "a", "c", "h", "a", "i", "n", "I", "d">>

Quoted(w) == <<Q>> \o w \o <<Q>>

MatchAt(s, i, pat) ==
    /\ i + Len(pat) - 1 <= Len(s)
    /\ \A k \in 1..Len(pat) : s[i + k - 1] = pat[k]

\* str::replace: every non-overlapping match of pat, found left to right,
\* is replaced by rep; replaced text is not scanned again.
RECURSIVE ReplaceFrom(_, _, _, _)
ReplaceFrom(s, i, pat, rep) ==
    IF i > Len(s) THEN <<>>
    ELSE IF MatchAt(s, i, pat) THEN rep \o ReplaceFrom(s, i + Len(pat), pat, rep)
    ELSE <<s[i]>> \o ReplaceFrom(s, i + 1, pat, rep)

StrReplace(s, pat, rep) == ReplaceFrom(s, 1, pat, rep)

Contains(s, pat) == \E i \in 1..Len(s) : MatchAt(s, i, pat)

\* ------------------------------------------------------------------------
\* serde_json::from_str::<Value> on the JSON subset the chain specs use:
\* objects, strings without escapes, integers; blanks between tokens.
\* ------------------------------------------------------------------------

IsWs(c) == c = " " \/ c = "\n"

RECURSIVE SkipWs(_, _)
SkipWs(s, i) == IF i <= Len(s) /\ IsWs(s[i]) THEN SkipWs(s, i + 1) ELSE i

Bad == [ok |-> FALSE, v |-> [k |-> "bad"], i |-> 0]

RECURSIVE StringEnd(_, _)
StringEnd(s, i) ==
    IF i > Len(s) THEN 0 ELSE IF s[i] = Q THEN i ELSE StringEnd(s, i + 1)

\* s[i] is the opening quote.
ParseString(s, i) ==
    LET e == StringEnd(s, i + 1)
    IN  IF e = 0 THEN Bad
        ELSE [ok |-> TRUE, v |-> [k |-> "str", s |-> SubSeq(s, i + 1, e - 1)], i |-> e + 1]

RECURSIVE DigitsEnd(_, _)
DigitsEnd(s, i) == IF i <= Len(s) /\ IsDigit(s[i]) THEN DigitsEnd(s, i + 1) ELSE i

\* s[i] is "-" or a digit.  A leading zero ends the integer part.
ParseNumber(s, i) ==
    LET neg == s[i] = "-"
        b   == IF neg THEN i + 1 ELSE i
        e   == DigitsEnd(s, b)
    IN  IF e = b THEN Bad
        ELSE IF s[b] = "0" /\ e > b + 1 THEN Bad
        ELSE [ok |-> TRUE,
              v  |-> [k |-> "num", neg |-> neg,
                      digits |-> [n \in 1..(e - b) |-> DigitOf(s[b + n - 1])]],
              i  |-> e]

RECURSIVE ParseValue(_, _)
RECURSIVE ParseMembers(_, _, _)

\* s[i] starts a member: "key" : value, then "," and another member or "}".
ParseMembers(s, i, acc) ==
    IF i > Len(s) \/ s[i] # Q THEN Bad
    ELSE LET key == ParseString(s, i)
             c   == SkipWs(s, key.i)
             val == ParseValue(s, SkipWs(s, c + 1))
             d   == SkipWs(s, val.i)
             mem == Append(acc, [key |-> key.v.s, val |-> val.v])
         IN  IF ~key.ok THEN Bad
             ELSE IF c > Len(s) \/ s[c] # ":" THEN Bad
             ELSE IF ~val.ok THEN Bad
             ELSE IF d > Len(s) THEN Bad
             ELSE IF s[d] = "}" THEN
                 [ok |-> TRUE, v |-> [k |-> "obj", members |-> mem], i |-> d + 1]
             ELSE IF s[d] = "," THEN ParseMembers(s, SkipWs(s, d + 1), mem)
             ELSE Bad

ParseValue(s, i) ==
    IF i > Len(s) THEN Bad
    ELSE IF s[i] = Q THEN ParseString(s, i)
    ELSE IF s[i] = "-" \/ IsDigit(s[i]) THEN ParseNumber(s, i)
    ELSE IF s[i] = "{" THEN
        LET j == SkipWs(s, i + 1)
        IN  IF j <= Len(s) /\ s[j] = "}"
            THEN [ok |-> TRUE, v |-> [k |-> "obj", members |-> <<>>], i |-> j + 1]
            ELSE ParseMembers(s, j, <<>>)
    ELSE Bad

\* The whole text is one value; anything but blanks after it is an error.
from_str(s) ==
    LET r == ParseValue(s, SkipWs(s, 1))
    IN  IF r.ok /\ SkipWs(s, r.i) > Len(s) THEN r ELSE Bad

\* Value::get(key): the member of an object (the last one when the key
\* repeats), None for a missing key and for a value that is no object.
ValueGet(v, key) ==
    IF v.k # "obj" THEN None
    ELSE LET hits == {n \in 1..Len(v.members) : v.members[n].key = key}
         IN  IF hits = {} THEN None
             ELSE Some(v.members[CHOOSE n \in hits : \A m \in hits : m <= n].val)

\* Value::as_u64: Some for a non-negative integer that fits 64 bits.
as_u64(v) ==
    IF v.k # "num" THEN None
    ELSE IF v.neg THEN None
    ELSE LET r == FromDec(v.digits, U64Limbs)
         IN  IF r.overflow THEN None ELSE Some(r.limbs)

\* value.get(key).and_then(Value::as_u64)
GetU64(v, key) ==
    LET member == ValueGet(v, key)
    IN  IF IsSome(member) THEN as_u64(Unwrap(member)) ELSE None

\* Option::unwrap_or
UnwrapOr(o, d) == IF IsSome(o) THEN Unwrap(o) ELSE d

\* ------------------------------------------------------------------------
\* Paths and files.  A path is the sequence of its components; fs maps a
\* file path to None (absent) or Some(text).
\* ------------------------------------------------------------------------

Root == <<>>

CurDir == <<".">>

\* Path::join with a single relative component.
Join(dir, name) == Append(dir, name)

\* Path::parent: None for the root and for the empty path.
Parent(p) == IF Len(p) = 0 THEN None ELSE Some(SubSeq(p, 1, Len(p) - 1))

IsDir(f, p) == \E q \in DOMAIN f : Len(q) > Len(p) /\ SubSeq(q, 1, Len(p)) = p

\* Path::exists
Exists(f, p) == IsDir(f, p) \/ (p \in DOMAIN f /\ IsSome(f[p]))

\* ------------------------------------------------------------------------
\* Errors and results
\* ------------------------------------------------------------------------

Res(kind, command, binary, path) ==
    [kind |-> kind, command |-> command, binary |-> binary, path |-> path]

Ok(path) == Res("Ok", "", <<>>, path)

MissingChainSpec(path) == Res("MissingChainSpec", "", <<>>, path)

MissingCommand(command, binary) == Res("MissingCommand", command, binary, <<>>)

MissingBinary(name) == Res("MissingBinary", name, <<>>, <<>>)

\* std::io::Error of a failed run, converted by `?`
IoError == Res("IO", "", <<>>, <<>>)

\* anyhow::Error of get_parachain_id and replace_para_id, converted by `?`
AnyhowError == Res("AnyhowError", "", <<>>, <<>>)

ManifestError == Res("ManifestError", "", <<>>, <<>>)

\* ------------------------------------------------------------------------
\* Running an external program (duct): cmd(program, args) with standard
\* output inherited, discarded or redirected to a file.  `out` is what the
\* environment does: [kind, stdout, file].
\*   openfail   the redirection target cannot be created; nothing is spawned
\*   spawnfail  the program cannot be started
\*   nonzero    the program ran and exited with a failure status
\*   ok         the program ran and exited with status 0
\* A program that ran has written out.stdout to its standard output and,
\* when it was handed an output path, out.file (None: nothing) to it.
\* ------------------------------------------------------------------------

\* .stdout_null(), no redirection, .stdout_path(p)
StdoutNull == <<"null">>

StdoutInherit == <<"inherit">>

StdoutPath(p) == <<"path", p>>

\* cmd(program, args), with .dir(dir) when dir is Some
Invocation(program, args, dir, stdout) ==
    [program |-> program, args |-> args, dir |-> dir, stdout |-> stdout]

\* A build-spec run that leaves a plain spec written earlier in place.
RedirectedKeepsOld(before, text) ==
    IF IsSome(before) /\ Unwrap(before) # <<>> THEN before ELSE Some(text)

\* stdout_path: the content of the redirection target once the program has
\* printed `text`, given what the target held before the run (File::create
\* truncates, so nothing of it is kept).
Redirected(before, text) == Some(text)

Run(f, inv, outpath, out) ==
    LET redirected == inv.stdout[1] = "path"
        target     == inv.stdout[Len(inv.stdout)]
        \* File::create: the target exists and is empty before the spawn
        f1 == IF redirected THEN [f EXCEPT ![target] = Some(<<>>)] ELSE f
        ran == out.kind \in {"nonzero", "ok"}
        f2 == IF ran /\ IsSome(outpath) /\ IsSome(out.file)
              THEN [f1 EXCEPT ![Unwrap(outpath)] = out.file] ELSE f1
        f3 == IF ran /\ redirected
              THEN [f2 EXCEPT ![target] = Redirected(f[target], out.stdout)] ELSE f2
        w1 == IF redirected THEN {target} ELSE {}
        w2 == IF ran /\ IsSome(outpath) /\ IsSome(out.file)
              THEN {Unwrap(outpath)} ELSE {}
    IN  IF redirected /\ out.kind = "openfail"
        THEN [ok |-> FALSE, fs |-> f, procs |-> <<>>, wrote |-> {}, opened |-> FALSE]
        ELSE [ok |-> out.kind = "ok", fs |-> f3, procs |-> <<inv>>,
              wrote |-> w1 \cup w2, opened |-> redirected]

\* ------------------------------------------------------------------------
\* check_command_exists
\* ------------------------------------------------------------------------

HelpArgs(command) == <<command, "--help">>

\* A probe that maps only the exit status, letting a spawn failure through.
ProbeErrorUnmapped(command, binary_path, out) ==
    IF out.kind = "spawnfail" THEN IoError ELSE MissingCommand(command, binary_path)

\* The error of a failed probe.
ProbeError(command, binary_path, out) == MissingCommand(command, binary_path)

check_command_exists(f, binary_path, command, out) ==
    LET r == Run(f, Invocation(binary_path, HelpArgs(command), None, StdoutNull), None, out)
    IN  [ok     |-> r.ok,
         result |-> IF r.ok THEN Ok(<<>>) ELSE ProbeError(command, binary_path, out),
         procs  |-> r.procs]

\* ------------------------------------------------------------------------
\* get_parachain_id and replace_para_id
\* ------------------------------------------------------------------------

get_parachain_id(f, chain_spec) ==
    IF ~(chain_spec \in DOMAIN f /\ IsSome(f[chain_spec]))
    THEN [ok |-> FALSE, v |-> None]
    ELSE LET value == from_str(Unwrap(f[chain_spec]))
         IN  IF ~value.ok THEN [ok |-> FALSE, v |-> None]
             ELSE [ok |-> TRUE, v |-> GetU64(value.v, KeyParaId)]

\* format!("\"{key}\": {id}")
Field(key, id) == Quoted(key) \o <<":", " ">> \o Display(id)

\* pop_common::replace_in_file: the replacements are applied to the whole
\* text one after the other, in the map's iteration order, and the result
\* is written back.
RECURSIVE ApplyAll(_, _)
ApplyAll(text, reps) ==
    IF reps = <<>> THEN text
    ELSE ApplyAll(StrReplace(text, reps[1][1], reps[1][2]), Tail(reps))

replace_in_file(f, file_path, reps) ==
    IF ~(file_path \in DOMAIN f /\ IsSome(f[file_path]))
    THEN [ok |-> FALSE, fs |-> f]
    ELSE [ok |-> TRUE,
          fs |-> [f EXCEPT ![file_path] = Some(ApplyAll(Unwrap(f[file_path]), reps))]]

\* The two entries of replacements_in_cargo.
Replacements(para_id, generated_para_id) ==
    << <<Field(KeyParaId, generated_para_id), Field(KeyParaId, para_id)>>,
       <<Field(KeyParachainId, generated_para_id), Field(KeyParachainId, para_id)>> >>

\* A HashMap iterates in an order the caller does not control.
Ordered(reps, order) == [n \in 1..Len(reps) |-> reps[order[n]]]

Orders == {<<1, 2>>, <<2, 1>>}

replace_para_id(f, chain_spec, para_id, generated_para_id, order) ==
    replace_in_file(f, chain_spec, Ordered(Replacements(para_id, generated_para_id), order))

\* ------------------------------------------------------------------------
\* The chain-spec operations.  Each returns the file system it leaves, its
\* result, the external programs it invoked (in order), the paths written
\* during the call and, for generate_plain_chain_spec, the text the
\* build-spec run left (fresh) and the generated identifier (gen).
\* env holds the environment's part: the outcome of the probe (env.probe)
\* and of the subcommand (env.run), and the map's iteration order.
\* ------------------------------------------------------------------------

Outcome(f, result, procs, wrote, fresh, gen, opened, probed, ran) ==
    [fs |-> f, result |-> result, procs |-> procs, wrote |-> wrote,
     fresh |-> fresh, gen |-> gen, opened |-> opened,
     probed |-> probed, ran |-> ran]

\* A failed call that removes its output before it returns.
OnErrorCleansUp(f, output) == [f EXCEPT ![output] = None]

\* `.run()?` returns the error to the caller; the output file is left as
\* the failed run left it.
OnError(f, output) == f

BuildSpecArgs == <<"build-spec", "--disable-default-bootnode">>

\* get_parachain_id(plain_chain_spec)?.unwrap_or(para_id.into()) as u32
GeneratedParaId(id, para_id) == AsU32(UnwrapOr(id, IntoU64(para_id)))

generate_plain_chain_spec(f, binary_path, plain_chain_spec, para_id, env) ==
    LET probe == check_command_exists(f, binary_path, "build-spec", env.probe)
        run   == Run(f, Invocation(binary_path, BuildSpecArgs, None,
                                   StdoutPath(plain_chain_spec)), None, env.run)
        procs == probe.procs \o run.procs
        fresh == run.fs[plain_chain_spec]
        id    == get_parachain_id(run.fs, plain_chain_spec)
        gen   == GeneratedParaId(id.v, para_id)
        rep   == replace_para_id(run.fs, plain_chain_spec, para_id, gen, env.order)
        pk    == env.probe.kind
        rk    == env.run.kind
    IN  IF ~probe.ok
        THEN Outcome(f, probe.result, probe.procs, {}, None, None, FALSE, pk, "none")
        ELSE IF ~run.ok
        THEN Outcome(OnError(run.fs, plain_chain_spec), IoError, procs, run.wrote,
                     None, None, run.opened, pk, rk)
        ELSE IF ~id.ok
        THEN Outcome(OnError(run.fs, plain_chain_spec), AnyhowError, procs, run.wrote,
                     fresh, None, TRUE, pk, rk)
        ELSE IF ~rep.ok
        THEN Outcome(OnError(rep.fs, plain_chain_spec), AnyhowError, procs, run.wrote,
                     fresh, Some(gen), TRUE, pk, rk)
        ELSE Outcome(rep.fs, Ok(<<>>), procs, run.wrote \cup {plain_chain_spec},
                     fresh, Some(gen), TRUE, pk, rk)

\* A precondition that looks at the directory of the chain spec only.
SpecIsMissingChecksParent(f, chain_spec) ==
    ~Exists(f, UnwrapOr(Parent(chain_spec), CurDir))

\* `if !chain_spec.exists() { return Err(Error::MissingChainSpec(..)) }`
SpecIsMissing(f, chain_spec) == ~Exists(f, chain_spec)

\* An output always placed in the current directory.
SiblingInCurDir(chain_spec, file_name) == Join(CurDir, file_name)

\* chain_spec.parent().unwrap_or(Path::new("./")).join(file_name)
Sibling(chain_spec, file_name) == Join(UnwrapOr(Parent(chain_spec), CurDir), file_name)

RawSpecArgs(plain_chain_spec) ==
    <<"build-spec", "--chain", plain_chain_spec, "--disable-default-bootnode", "--raw">>

generate_raw_chain_spec(f, binary_path, plain_chain_spec, chain_spec_file_name, env) ==
    LET probe == check_command_exists(f, binary_path, "build-spec", env.probe)
        raw_chain_spec == Sibling(plain_chain_spec, chain_spec_file_name)
        run   == Run(f, Invocation(binary_path, RawSpecArgs(plain_chain_spec), None,
                                   StdoutPath(raw_chain_spec)), None, env.run)
        procs == probe.procs \o run.procs
        pk    == env.probe.kind
        rk    == env.run.kind
    IN  IF SpecIsMissing(f, plain_chain_spec)
        THEN Outcome(f, MissingChainSpec(plain_chain_spec), <<>>, {}, None, None,
                     FALSE, "none", "none")
        ELSE IF ~probe.ok
        THEN Outcome(f, probe.result, probe.procs, {}, None, None, FALSE, pk, "none")
        ELSE IF ~run.ok
        THEN Outcome(OnError(run.fs, raw_chain_spec), IoError, procs, run.wrote,
                     None, None, run.opened, pk, rk)
        ELSE Outcome(run.fs, Ok(raw_chain_spec), procs, run.wrote, None, None, TRUE,
                     pk, rk)

ExportArgs(command, chain_spec, file) == <<command, "--chain", chain_spec, file>>

\* export_wasm_file and generate_genesis_state_file differ in the
\* subcommand only.
Export(f, command, binary_path, chain_spec, file_name, env) ==
    LET probe == check_command_exists(f, binary_path, command, env.probe)
        file  == Sibling(chain_spec, file_name)
        run   == Run(f, Invocation(binary_path, ExportArgs(command, chain_spec, file),
                                   None, StdoutInherit), Some(file), env.run)
        procs == probe.procs \o run.procs
        pk    == env.probe.kind
        rk    == env.run.kind
    IN  IF SpecIsMissing(f, chain_spec)
        THEN Outcome(f, MissingChainSpec(chain_spec), <<>>, {}, None, None,
                     FALSE, "none", "none")
        ELSE IF ~probe.ok
        THEN Outcome(f, probe.result, probe.procs, {}, None, None, FALSE, pk, "none")
        ELSE IF ~run.ok
        THEN Outcome(OnError(run.fs, file), IoError, procs, run.wrote, None, None,
                     FALSE, pk, rk)
        ELSE Outcome(run.fs, Ok(file), procs, run.wrote, None, None, FALSE, pk, rk)

export_wasm_file(f, binary_path, chain_spec, wasm_file_name, env) ==
    Export(f, "export-genesis-wasm", binary_path, chain_spec, wasm_file_name, env)

generate_genesis_state_file(f, binary_path, chain_spec, genesis_file_name, env) ==
    Export(f, "export-genesis-state", binary_path, chain_spec, genesis_file_name, env)

\* ------------------------------------------------------------------------
\* Inputs of the chain-spec operations
\* ------------------------------------------------------------------------

Id0 == U32(<<0>>)

Id1000 == U32(<<1, 0, 0, 0>>)

Id2001 == U32(<<2, 0, 0, 1>>)

Id10000 == U32(<<1, 0, 0, 0, 0>>)

IdMax == U32(<<4, 2, 9, 4, 9, 6, 7, 2, 9, 5>>)

\* 2^32 + 1000, which no u32 holds
Wide1000 == FromDec(<<4, 2, 9, 4, 9, 6, 8, 2, 9, 6>>, U64Limbs).limbs

Member(key, value) == Quoted(key) \o <<":", " ">> \o value

Braces(body) == <<"{">> \o body \o <<"}">>

Comma == <<",", " ">>

NameMember == Member(<<"n">>, Quoted(<<"x">>))

\* {"n": "x", "para_id": 1000, "i": {"parachainId": 1000}}
DocDefault ==
    Braces(NameMember \o Comma \o Member(KeyParaId, Display(Id1000)) \o Comma
           \o Member(<<"i">>, Braces(Member(KeyParachainId, Display(Id1000)))))
    \o <<"\n">>

\* {"para_id": 1000, "i": {"parachainId": 10000}}
DocLonger ==
    Braces(Member(KeyParaId, Display(Id1000)) \o Comma
           \o Member(<<"i">>, Braces(Member(KeyParachainId, Display(Id10000)))))

\* {"n": "x"}
DocNoId == Braces(NameMember)

\* {"para_id": 4294968296}
DocWide == Braces(Member(KeyParaId, Display(Wide1000)))

\* {"para_id":1000}
DocCompact == Braces(Quoted(KeyParaId) \o <<":">> \o Display(Id1000))

\* {"para_id": "1000"}
DocString == Braces(Member(KeyParaId, Quoted(Display(Id1000))))

\* what a program prints when it has no specification to print
NotJson == <<"E", "r", "r">>

BuildSpecDocs ==
    {DocDefault, DocLonger, DocNoId, DocWide, DocCompact, DocString, NotJson}

Cut(text) == SubSeq(text, 1, Len(text) \div 2)

RawDoc == Braces(Member(<<"r">>, Quoted(<<"0", "x">>)))

Blob == <<"0", "x">>

Env(kind, stdout, file) == [kind |-> kind, stdout |-> stdout, file |-> file]

NodeBinary == <<"bin", "node">>

MissingBinaryPath == <<"bin", "absent">>

Binaries == {NodeBinary, MissingBinaryPath}

\* `binary subcommand --help`: a program that is not there cannot be
\* started; one that is there exits with or without success.
ProbeOutcomes(binary) ==
    IF binary = MissingBinaryPath THEN {Env("spawnfail", <<>>, None)}
    ELSE {Env("ok", <<>>, None), Env("nonzero", <<>>, None)}

Failures == {Env("openfail", <<>>, None), Env("spawnfail", <<>>, None)}

PlainRuns ==
    Failures
    \cup {Env("nonzero", t, None) : t \in {<<>>, Cut(DocDefault)}}
    \cup {Env("ok", t, None) : t \in BuildSpecDocs}

RawRuns ==
    Failures
    \cup {Env("nonzero", t, None) : t \in {<<>>, Cut(RawDoc)}}
    \cup {Env("ok", RawDoc, None)}

ExportRuns ==
    {Env("spawnfail", <<>>, None), Env("nonzero", <<>>, None),
     Env("nonzero", <<>>, Some(<<>>)), Env("ok", <<>>, Some(Blob))}

\* The environment of one call.  What the subcommand would do matters only
\* when the probe succeeded, and the iteration order only when the
\* subcommand did.
Envs(binary, runs, orders) ==
    {[probe |-> pr, run |-> r, order |-> o] :
        pr \in ProbeOutcomes(binary), r \in runs, o \in orders}
    \ {e \in [probe : ProbeOutcomes(binary), run : runs, order : orders] :
          \/ e.probe.kind # "ok" /\ e.run # Env("spawnfail", <<>>, None)
          \/ e.run.kind # "ok" /\ e.order # <<1, 2>>}

Targets == {Id1000, Id2001}

PlainPath == <<"d", "plain.json">>

OutPath == <<"d", "out">>

AbsentPath == <<"d", "absent.json">>

FileNames == {"plain.json", "out"}

Files == {Join(d, n) : d \in {<<"d">>, CurDir}, n \in FileNames}

\* the source handed to an export: the plain spec, a spec generated from
\* it, a path that does not exist, and the root, which has no parent
Sources == {PlainPath, OutPath, AbsentPath, Root}

\* ------------------------------------------------------------------------
\* State: fs, the record of the last call, and what earlier calls left
\* ------------------------------------------------------------------------

Changed(f, g) == {p \in DOMAIN f : f[p] # g[p]}

Call(op, binary, path, name, para_id, env, o, prevFs, prevLeft) ==
    [op |-> op, binary |-> binary, path |-> path, name |-> name,
     para_id |-> para_id, result |-> o.result, procs |-> o.procs,
     wrote |-> o.wrote, fresh |-> o.fresh, gen |-> o.gen, opened |-> o.opened,
     probed |-> o.probed, ran |-> o.ran,
     printed |-> IF o.ran \in {"ok", "nonzero"} THEN env.run.stdout ELSE <<>>,
     changed |-> Changed(prevFs, o.fs),
     existed |-> Exists(prevFs, path),
     pre |-> IF path \in DOMAIN prevFs THEN prevFs[path] ELSE None,
     prevLeft |-> prevLeft]

NoCall ==
    [op |-> "none", binary |-> <<>>, path |-> <<>>, name |-> "", para_id |-> None,
     result |-> Ok(<<>>), procs |-> <<>>, wrote |-> {}, fresh |-> None,
     gen |-> None, opened |-> FALSE, probed |-> "none", ran |-> "none",
     printed |-> <<>>,
     changed |-> {}, existed |-> FALSE,
     pre |-> None, prevLeft |-> None]

\* hist.left: Some(T) while the plain spec is as a successful
\* generate_plain_chain_spec with target T left it.
\* hist.leftover: the paths at which a generate_plain_chain_spec that
\* failed after opening its output left a file.
Hist(left, leftover) == [left |-> left, leftover |-> leftover]

ChainInit ==
    /\ fs = [p \in Files |-> None]
    /\ last = NoCall
    /\ hist = Hist(None, {})
    /\ calls = 0

\* The state after a call `op` with outcome o.
Done(op, binary, path, name, para_id, env, o) ==
    LET failed == o.result.kind # "Ok"
        plain  == op = "generate_plain_chain_spec"
    IN  /\ fs' = o.fs
        /\ last' = Call(op, binary, path, name, para_id, env, o, fs, hist.left)
        /\ hist' = Hist(IF plain /\ ~failed THEN para_id
                        ELSE IF PlainPath \in o.wrote THEN None ELSE hist.left,
                        IF plain /\ failed /\ o.opened
                        THEN hist.leftover \cup {path} ELSE hist.leftover)

GeneratePlain ==
    /\ calls < MaxCalls
    /\ calls' = calls + 1
    /\ \E b \in Binaries, t \in Targets :
         \E env \in Envs(b, PlainRuns, Orders) :
           \E o \in {generate_plain_chain_spec(fs, b, PlainPath, t, env)} :
             Done("generate_plain_chain_spec", b, PlainPath, "", Some(t), env, o)

GenerateRaw ==
    /\ calls < MaxCalls
    /\ calls' = calls + 1
    /\ \E b \in Binaries, src \in Sources, n \in FileNames :
         \E env \in Envs(b, RawRuns, {<<1, 2>>}) :
           \E o \in {generate_raw_chain_spec(fs, b, src, n, env)} :
             Done("generate_raw_chain_spec", b, src, n, None, env, o)

ExportWasm ==
    /\ calls < MaxCalls
    /\ calls' = calls + 1
    /\ \E b \in Binaries, src \in Sources, n \in FileNames :
         \E env \in Envs(b, ExportRuns, {<<1, 2>>}) :
           \E o \in {export_wasm_file(fs, b, src, n, env)} :
             Done("export_wasm_file", b, src, n, None, env, o)

GenerateGenesis ==
    /\ calls < MaxCalls
    /\ calls' = calls + 1
    /\ \E b \in Binaries, src \in Sources, n \in FileNames :
         \E env \in Envs(b, ExportRuns, {<<1, 2>>}) :
           \E o \in {generate_genesis_state_file(fs, b, src, n, env)} :
             Done("generate_genesis_state_file", b, src, n, None, env, o)

ChainNext == GeneratePlain \/ GenerateRaw \/ ExportWasm \/ GenerateGenesis

SpecChain == ChainInit /\ [][ChainNext]_vars

\* ------------------------------------------------------------------------
\* Properties of the chain-spec operations
\* ------------------------------------------------------------------------

PlainOp == "generate_plain_chain_spec"

RawOp == "generate_raw_chain_spec"

ExportOps == {RawOp, "export_wasm_file", "generate_genesis_state_file"}

Subcommand(op) ==
    IF op = "export_wasm_file" THEN "export-genesis-wasm"
    ELSE IF op = "generate_genesis_state_file" THEN "export-genesis-state"
    ELSE "build-spec"

HelpOf(op, binary) ==
    [program |-> binary, args |-> <<Subcommand(op), "--help">>, dir |-> <<>>,
     stdout |-> <<"null">>]

\* The top-level "para_id" of a text, as an unsigned 64-bit integer.
ParaIdIn(text) ==
    LET value == from_str(text)
    IN  IF value.ok THEN GetU64(value.v, KeyParaId) ELSE None

\* C1: generate_raw_chain_spec, export_wasm_file and
\* generate_genesis_state_file called with a source chain spec that does
\* not exist return MissingChainSpec carrying that path, whatever the
\* binary; no external program is invoked (neither the probe nor the
\* subcommand) and no file is written.
C1_MissingSpecStopsEarly ==
    (last.op \in ExportOps /\ ~last.existed) =>
        /\ last.result = [kind |-> "MissingChainSpec", command |-> "",
                          binary |-> <<>>, path |-> last.path]
        /\ last.procs = <<>>
        /\ last.wrote = {}
        /\ last.changed = {}

C1_Witness ==
    /\ last.op = "generate_genesis_state_file"
    /\ ~last.existed
    /\ last.binary = MissingBinaryPath
    /\ last.result.kind = "MissingChainSpec"
    /\ \E p \in DOMAIN fs : IsSome(fs[p])

\* C5: a probe that fails, by a non-zero exit or by a failure to start the
\* program, makes the operation return MissingCommand with the probed
\* subcommand and the binary path it was given; the probe is the only
\* program invoked and nothing is written.  MissingCommand has no other
\* origin.
C5_ProbeFailureIsMissingCommand ==
    /\ (last.op \in ExportOps \cup {PlainOp} /\ last.probed \in {"nonzero", "spawnfail"}) =>
        /\ last.result = [kind |-> "MissingCommand", command |-> Subcommand(last.op),
                          binary |-> last.binary, path |-> <<>>]
        /\ last.procs = <<HelpOf(last.op, last.binary)>>
        /\ last.wrote = {}
        /\ last.changed = {}
    /\ last.result.kind = "MissingCommand" => last.probed \in {"nonzero", "spawnfail"}

C5_Witness ==
    /\ last.op = "export_wasm_file"
    /\ last.existed
    /\ last.probed = "spawnfail"
    /\ last.result.kind = "MissingCommand"

\* C7 (as stated): in a second generate_plain_chain_spec on a plain spec
\* that a first call reconciled to another target, the generated
\* identifier is the "para_id" the first call left in the file.
C7_SecondCallReadsFirstTarget ==
    (/\ last.op = PlainOp
     /\ IsSome(last.gen)
     /\ IsSome(last.prevLeft)
     /\ last.prevLeft # last.para_id
     /\ IsSome(ParaIdIn(Unwrap(last.pre)))) =>
        Unwrap(last.gen) = AsU32(Unwrap(ParaIdIn(Unwrap(last.pre))))

\* C7 (amended): the generated identifier of every call, a second one
\* included, is read from what the build-spec run of that same call
\* printed: its top-level "para_id" narrowed to 32 bits, or the call's own
\* target when the field is absent.
C7_GeneratedIdIsFromThisRun ==
    (last.op = PlainOp /\ IsSome(last.gen)) =>
        Unwrap(last.gen) =
            AsU32(UnwrapOr(ParaIdIn(last.printed), IntoU64(Unwrap(last.para_id))))

C7_Witness ==
    /\ last.op = PlainOp
    /\ IsSome(last.gen)
    /\ IsSome(last.prevLeft)
    /\ last.prevLeft # last.para_id
    /\ IsSome(ParaIdIn(Unwrap(last.pre)))
    /\ Unwrap(last.gen) # AsU32(Unwrap(ParaIdIn(Unwrap(last.pre))))

\* C8: the generated identifier equals the top-level "para_id" of the
\* freshly written file for every unsigned 64-bit value of the field, and
\* the target when the field is absent (the file then keeps its content);
\* after a successful call on a file containing `"para_id": G` the field
\* reads the target.
C8_GeneratedIdEqualsField ==
    (last.op = PlainOp /\ IsSome(last.gen)) =>
        LET id == ParaIdIn(Unwrap(last.fresh))
        IN  /\ IsSome(id) => IntoU64(Unwrap(last.gen)) = Unwrap(id)
            /\ ~IsSome(id) => /\ last.gen = last.para_id
                              /\ fs[last.path] = last.fresh
            /\ (/\ IsSome(id)
                /\ last.result.kind = "Ok"
                /\ Contains(Unwrap(last.fresh), Field(KeyParaId, Unwrap(last.gen)))) =>
                   ParaIdIn(Unwrap(fs[last.path])) = Some(IntoU64(Unwrap(last.para_id)))

\* C9: a generate_plain_chain_spec that fails after its output was opened
\* leaves the file holding what the build-spec run printed (nothing when
\* the program did not run); no later call removes it; and a later
\* generate_raw_chain_spec on that path does not return MissingChainSpec:
\* it probes the binary and, the probe passing and its own output being
\* opened, runs `build-spec --chain <path> --disable-default-bootnode --raw`.
C9_FailedOutputStays ==
    /\ \A p \in hist.leftover : p \in DOMAIN fs /\ IsSome(fs[p])
    /\ (last.op = PlainOp /\ last.result.kind # "Ok" /\ last.opened) =>
          fs[last.path] = Some(last.printed)
    /\ (last.op = RawOp /\ last.path \in hist.leftover) =>
          /\ last.result.kind # "MissingChainSpec"
          /\ Len(last.procs) >= 1
          /\ last.procs[1] = HelpOf(last.op, last.binary)
          /\ (last.probed = "ok" /\ last.ran # "openfail") =>
                /\ Len(last.procs) = 2
                /\ last.procs[2].program = last.binary
                /\ last.procs[2].args =
                      <<"build-spec", "--chain", last.path,
                        "--disable-default-bootnode", "--raw">>

C9_Witness ==
    /\ last.op = RawOp
    /\ last.path \in hist.leftover
    /\ last.pre = Some(<<>>)
    /\ Len(last.procs) > 1
    /\ last.result.kind = "Ok"

\* parent(source)/filename, "./"/filename for a source without a parent
OutputOf(source, file_name) ==
    IF Len(source) = 0 THEN <<".", file_name>>
    ELSE [n \in 1..Len(source) |-> IF n = Len(source) THEN file_name ELSE source[n]]

\* C10 (as stated): for every output filename the three exports write only
\* parent(source)/filename and leave the content of their source
\* unchanged; the plain spec changes only in generate_plain_chain_spec.
C10_SourceNeverChanges ==
    /\ last.op \in ExportOps =>
          /\ last.wrote \subseteq {OutputOf(last.path, last.name)}
          /\ last.path \notin last.changed
    /\ PlainPath \in last.changed => last.op = PlainOp

\* C10 (amended): the three exports write, and change, only
\* parent(source)/filename ("./"/filename for a source without a parent);
\* the source keeps its content whenever that output path is not the
\* source itself.
C10_OnlyTheOutputChanges ==
    last.op \in ExportOps =>
        /\ last.wrote \subseteq {OutputOf(last.path, last.name)}
        /\ last.changed \subseteq {OutputOf(last.path, last.name)}
        /\ OutputOf(last.path, last.name) # last.path => last.path \notin last.changed
        /\ last.result.kind = "Ok" => last.result.path = OutputOf(last.path, last.name)

C10_Witness ==
    /\ last.op = RawOp
    /\ last.path = PlainPath
    /\ last.result.kind = "Ok"
    /\ OutPath \in last.changed
    /\ fs[PlainPath] = last.pre

\* ------------------------------------------------------------------------
\* replace_para_id on its own: a chain spec of any content, any pair of
\* identifiers
\* ------------------------------------------------------------------------

ChainSpecPath == <<"t", "chain-spec.json">>

Indent == <<"\n", " ", " ">>

\* the text of the function's own test: a name, "para_id": 1000 and, nested
\* in "parachainInfo", "parachainId": 1000
TestText ==
    Indent \o NameMember \o <<",">>
    \o Indent \o Member(KeyParaId, Display(Id1000)) \o <<",">>
    \o Indent \o Quoted(<<"i">>) \o <<":", " ", "{">>
    \o Indent \o Member(KeyParachainId, Display(Id1000))
    \o Indent \o <<"}", ",", "\n">>

\* {"para_id": 10000, "i": {"parachainId": 1000}}
DocLongerId ==
    Braces(Member(KeyParaId, Display(Id10000)) \o Comma
           \o Member(<<"i">>, Braces(Member(KeyParachainId, Display(Id1000)))))

ReplaceTexts ==
    {TestText, DocDefault, DocLonger, DocLongerId, DocCompact, DocNoId, DocWide, <<>>}

ReplaceIds == {Id0, Id1000, Id2001, Id10000, IdMax}

ReplaceInit ==
    /\ \E text \in ReplaceTexts : fs = [p \in {ChainSpecPath} |-> Some(text)]
    /\ last = NoCall
    /\ hist = Hist(None, {})
    /\ calls = 0

ReplaceParaId ==
    /\ calls < MaxCalls
    /\ calls' = calls + 1
    /\ \E para_id \in ReplaceIds, generated_para_id \in ReplaceIds, order \in Orders :
         \E r \in {replace_para_id(fs, ChainSpecPath, para_id, generated_para_id, order)} :
           /\ fs' = r.fs
           /\ last' = [NoCall EXCEPT !.op = "replace_para_id",
                                     !.path = ChainSpecPath,
                                     !.para_id = Some(para_id),
                                     !.gen = Some(generated_para_id),
                                     !.result = IF r.ok THEN Ok(<<>>) ELSE AnyhowError,
                                     !.changed = Changed(fs, r.fs),
                                     !.existed = Exists(fs, ChainSpecPath),
                                     !.pre = fs[ChainSpecPath]]
           /\ UNCHANGED hist

ReplaceNext == ReplaceParaId

SpecReplace == ReplaceInit /\ [][ReplaceNext]_vars

\* The text with every G that is the whole integer after `"key": `
\* replaced by T, and nothing else touched.
RECURSIVE ValueReplaced(_, _, _, _, _)
ValueReplaced(text, i, key, g, t) ==
    LET pat == Field(key, g)
        e   == i + Len(pat)
    IN  IF i > Len(text) THEN <<>>
        ELSE IF MatchAt(text, i, pat) /\ (e > Len(text) \/ ~IsDigit(text[e]))
        THEN Field(key, t) \o ValueReplaced(text, e, key, g, t)
        ELSE <<text[i]>> \o ValueReplaced(text, i + 1, key, g, t)

Reconciled(text, g, t) ==
    ValueReplaced(ValueReplaced(text, 1, KeyParaId, g, t), 1, KeyParachainId, g, t)

\* C2: after replace_para_id with target T and generated identifier G,
\* every G that is the value of "para_id" or of "parachainId" reads T and
\* nothing else in the file has changed, other integers that begin with
\* the digits of G included.
C2_OnlyTheIdChanges ==
    (last.op = "replace_para_id" /\ last.result.kind = "Ok") =>
        fs[last.path] =
            Some(Reconciled(Unwrap(last.pre), Unwrap(last.gen), Unwrap(last.para_id)))

\* ------------------------------------------------------------------------
\* build_parachain and binary_path
\* ------------------------------------------------------------------------

ProjectPath == <<"proj">>

OtherNode == <<"other", "node">>

NoManifestNode == <<"nomanifest">>

TemplateNodeName == "parachain-template-node"

OtherNodeName == "other-node"

\* pop_common::manifest::from_path(Some(node_path)): the manifest found at
\* the path, whose package declares a name, or an error.
from_path(node_path) ==
    IF node_path = Join(ProjectPath, "node") THEN [ok |-> TRUE, name |-> TemplateNodeName]
    ELSE IF node_path = OtherNode THEN [ok |-> TRUE, name |-> OtherNodeName]
    ELSE [ok |-> FALSE, name |-> ""]

Profiles == {"Debug", "Release"}

\* Profile::target_folder
target_folder(profile, path) ==
    Join(Join(path, "target"), IF profile = "Release" THEN "release" ELSE "debug")

\* A lookup that also accepts the binary of the other profile.
BinaryExistsInAnyProfile(f, target_path, node_name) ==
    \E dir \in {"debug", "release"} :
        Exists(f, Join(Join(Unwrap(Parent(target_path)), dir), node_name))

\* `target_path.join(node_name).exists()`
BinaryExists(f, target_path, node_name) == Exists(f, Join(target_path, node_name))

BuildOutcome(f, result, procs, checked) ==
    [fs |-> f, result |-> result, procs |-> procs, checked |-> checked]

binary_path(f, target_path, node_path) ==
    LET manifest  == from_path(node_path)
        node_name == manifest.name
        release   == Join(target_path, node_name)
    IN  IF ~manifest.ok THEN BuildOutcome(f, ManifestError, <<>>, <<>>)
        ELSE IF ~BinaryExists(f, target_path, node_name)
        THEN BuildOutcome(f, MissingBinary(node_name), <<>>, <<release>>)
        ELSE BuildOutcome(f, Ok(release), <<>>, <<release>>)

\* A node path that is always the project's `node` directory.
NodePathIgnoresArgument(path, node_path) == Join(path, "node")

\* node_path.unwrap_or(&path.join("node"))
NodePath(path, node_path) == UnwrapOr(node_path, Join(path, "node"))

\* vec!["build"], then "--package <package>", then "--release"
BuildArgs(package, profile) ==
    <<"build">>
    \o (IF IsSome(package) THEN <<"--package", Unwrap(package)>> ELSE <<>>)
    \o (IF profile = "Release" THEN <<"--release">> ELSE <<>>)

\* The files a cargo run that got to run leaves in the target directory.
Built(f, built) == [p \in DOMAIN f |-> IF p \in built THEN Some(Blob) ELSE f[p]]

build_parachain(f, path, package, profile, node_path, env) ==
    LET run   == Run(f, Invocation(<<"cargo">>, BuildArgs(package, profile),
                                   Some(path), StdoutInherit), None, env)
        after == IF env.kind \in {"ok", "nonzero"} THEN Built(run.fs, env.built) ELSE run.fs
        found == binary_path(after, target_folder(profile, path),
                             NodePath(path, node_path))
    IN  IF ~run.ok THEN BuildOutcome(after, IoError, run.procs, <<>>)
        ELSE BuildOutcome(after, found.result, run.procs, found.checked)

TargetFiles ==
    {Join(target_folder(pr, ProjectPath), n) :
        pr \in Profiles, n \in {TemplateNodeName, OtherNodeName}}

CargoRuns ==
    {[kind |-> "spawnfail", stdout |-> <<>>, file |-> None, built |-> {}]}
    \cup {[kind |-> k, stdout |-> <<>>, file |-> None, built |-> b] :
             k \in {"nonzero", "ok"}, b \in SUBSET TargetFiles}

NodePaths == {None, Some(OtherNode), Some(NoManifestNode)}

Packages == {None, Some(TemplateNodeName)}

BuildCall(op, path, package, profile, node, target, o, prevFs) ==
    [op |-> op, path |-> path, package |-> package, profile |-> profile,
     node |-> node, target |-> target, result |-> o.result, procs |-> o.procs,
     checked |-> o.checked, changed |-> Changed(prevFs, o.fs),
     present |-> {p \in DOMAIN prevFs : IsSome(prevFs[p])}]

BuildInit ==
    /\ fs = [p \in TargetFiles |-> None]
    /\ last = BuildCall("none", <<>>, None, "Debug", <<>>, <<>>,
                        BuildOutcome(fs, Ok(<<>>), <<>>, <<>>), fs)
    /\ hist = Hist(None, {})
    /\ calls = 0

BuildParachain ==
    /\ calls < MaxCalls
    /\ calls' = calls + 1
    /\ \E package \in Packages, profile \in Profiles, node_path \in NodePaths,
          env \in CargoRuns :
         \E o \in {build_parachain(fs, ProjectPath, package, profile, node_path, env)} :
           /\ fs' = o.fs
           /\ last' = BuildCall("build_parachain", ProjectPath, package, profile,
                                IF IsSome(node_path) THEN Unwrap(node_path)
                                ELSE <<"proj", "node">>,
                                <<>>, o, fs)
           /\ UNCHANGED hist

BinaryPath ==
    /\ calls < MaxCalls
    /\ calls' = calls + 1
    /\ \E profile \in Profiles, node_path \in NodePaths :
         LET target == target_folder(profile, ProjectPath)
             node   == NodePath(ProjectPath, node_path)
         IN  \E o \in {binary_path(fs, target, node)} :
               /\ fs' = o.fs
               /\ last' = BuildCall("binary_path", ProjectPath, None, profile, node,
                                    target, o, fs)
               /\ UNCHANGED hist

BuildNext == BuildParachain \/ BinaryPath

SpecBuild == BuildInit /\ [][BuildNext]_vars

\* the package name each node manifest declares
DeclaredName(node) ==
    IF node = <<"proj", "node">> THEN Some("parachain-template-node")
    ELSE IF node = <<"other", "node">> THEN Some("other-node")
    ELSE None

ProfileDir(profile) ==
    IF profile = "Release" THEN <<"proj", "target", "release">>
    ELSE <<"proj", "target", "debug">>

CargoBuild(package, profile) ==
    [program |-> <<"cargo">>,
     args    |-> IF IsSome(package)
                 THEN IF profile = "Release"
                      THEN <<"build", "--package", Unwrap(package), "--release">>
                      ELSE <<"build", "--package", Unwrap(package)>>
                 ELSE IF profile = "Release" THEN <<"build", "--release">>
                      ELSE <<"build">>,
     dir     |-> <<last.path>>,
     stdout  |-> <<"inherit">>]

\* C3: whenever build_parachain returns a path, for either profile, with or
\* without a package and a node path, the path is <profile output
\* directory>/<N>, N being the package name of the node manifest (node_path,
\* or project_path/node when none is supplied); cargo build was invoked, and
\* the existence of exactly that path was tested on the files the build
\* left, where it exists.
C3_BuildReturnsCheckedBinary ==
    (last.op = "build_parachain" /\ last.result.kind = "Ok") =>
        /\ IsSome(DeclaredName(last.node))
        /\ last.result.path = Append(ProfileDir(last.profile), Unwrap(DeclaredName(last.node)))
        /\ last.procs = <<CargoBuild(last.package, last.profile)>>
        /\ last.checked = <<last.result.path>>
        /\ IsSome(fs[last.result.path])

C3_Witness ==
    /\ last.op = "build_parachain"
    /\ last.result.kind = "Ok"
    /\ last.profile = "Debug"
    /\ last.node = OtherNode
    /\ IsSome(last.package)
    /\ last.result.path \in last.changed

\* C4: binary_path called with an output directory that does not hold
\* <directory>/<N>, N being the package name the node manifest declares,
\* fails with MissingBinary(N) and nothing else, whatever other binaries
\* exist; the only path whose existence it tests is <directory>/<N>.
C4_MissingBinaryNamesThePackage ==
    (/\ last.op = "binary_path"
     /\ IsSome(DeclaredName(last.node))
     /\ Append(last.target, Unwrap(DeclaredName(last.node))) \notin last.present) =>
        /\ last.result = [kind |-> "MissingBinary",
                          command |-> Unwrap(DeclaredName(last.node)),
                          binary |-> <<>>, path |-> <<>>]
        /\ last.checked = <<Append(last.target, Unwrap(DeclaredName(last.node)))>>
        /\ last.changed = {}

C4_Witness ==
    /\ last.op = "binary_path"
    /\ last.result.kind = "MissingBinary"
    /\ last.result.command = "parachain-template-node"
    /\ last.profile = "Debug"
    /\ <<"proj", "target", "release", "parachain-template-node">> \in last.present
    /\ <<"proj", "target", "debug", "other-node">> \in last.present

\* ------------------------------------------------------------------------
\* is_supported.  A manifest holds its direct dependencies (a map from
\* names to version requirements) and, when it has a workspace section, the
\* workspace's dependencies; here fs holds the manifest that from_path
\* reads, None when it cannot be read.
\* ------------------------------------------------------------------------

DEPENDENCIES ==
    <<"cumulus-client-collator", "cumulus-primitives-core", "parachains-common",
      "polkadot-sdk">>

DependencyNames ==
    {"cumulus-client-collator", "cumulus-primitives-core", "parachains-common",
     "polkadot-sdk", "serde"}

Versions == {"^0.14.0", "1"}

Manifest(dependencies, workspace) ==
    [dependencies |-> dependencies, workspace |-> workspace]

NoDependencies == [d \in {} |-> "1"]

\* HashMap::contains_key
ContainsKey(map, key) == key \in DOMAIN map

\* A classifier that looks at the direct dependencies only.
InWorkspaceIgnored(manifest, d) == FALSE

\* manifest.workspace.as_ref().map_or(false, |w| w.dependencies.contains_key(d))
InWorkspace(manifest, d) ==
    IF IsSome(manifest.workspace)
    THEN ContainsKey(Unwrap(manifest.workspace).dependencies, d)
    ELSE FALSE

is_supported(manifest) ==
    IF ~IsSome(manifest) THEN [ok |-> FALSE, value |-> FALSE]
    ELSE [ok    |-> TRUE,
          value |-> \E n \in 1..Len(DEPENDENCIES) :
                       \/ ContainsKey(Unwrap(manifest).dependencies, DEPENDENCIES[n])
                       \/ InWorkspace(Unwrap(manifest), DEPENDENCIES[n])]

Asked(op, manifest, r) == [op |-> op, manifest |-> manifest, result |-> r]

NotAsked == Asked("none", None, [ok |-> FALSE, value |-> FALSE])

\* what `cargo new` writes, the same inside a workspace, and no manifest
SupportedInit ==
    /\ fs \in {None, Some(Manifest(NoDependencies, None)),
               Some(Manifest(NoDependencies, Some([dependencies |-> NoDependencies])))}
    /\ last = NotAsked
    /\ hist = Hist(None, {})
    /\ calls = 0

Insert(map, key, value) == [k \in DOMAIN map \cup {key} |-> IF k = key THEN value ELSE map[k]]

\* manifest.dependencies.insert(name, Dependency::Simple(version))
AddDependency ==
    /\ IsSome(fs)
    /\ \E name \in DependencyNames, version \in Versions :
         fs' = Some([Unwrap(fs) EXCEPT !.dependencies = Insert(@, name, version)])
    /\ last' = NotAsked
    /\ UNCHANGED <<hist, calls>>

AddWorkspaceDependency ==
    /\ IsSome(fs)
    /\ IsSome(Unwrap(fs).workspace)
    /\ \E name \in DependencyNames, version \in Versions :
         fs' = Some([Unwrap(fs) EXCEPT !.workspace =
                       Some([dependencies |-> Insert(Unwrap(@).dependencies, name, version)])])
    /\ last' = NotAsked
    /\ UNCHANGED <<hist, calls>>

IsSupported ==
    /\ last' = Asked("is_supported", fs, is_supported(fs))
    /\ UNCHANGED <<fs, hist, calls>>

SupportedNext == AddDependency \/ AddWorkspaceDependency \/ IsSupported

SpecSupported == SupportedInit /\ [][SupportedNext]_vars

Sentinels ==
    {"cumulus-client-collator", "cumulus-primitives-core", "parachains-common",
     "polkadot-sdk"}

DirectNames(manifest) == DOMAIN manifest.dependencies

WorkspaceNames(manifest) ==
    IF manifest.workspace = None THEN {}
    ELSE DOMAIN manifest.workspace[1].dependencies

\* C6: is_supported is true exactly when one of the four sentinel names is
\* a key of the direct dependencies or, the manifest having a workspace
\* section, of the workspace dependencies, whatever the versions; with none
\* of the four names in either collection it is false.
C6_SupportedIffSentinel ==
    (last.op = "is_supported" /\ last.manifest # None) =>
        /\ last.result.ok
        /\ last.result.value <=>
              Sentinels \cap (DirectNames(last.manifest[1])
                              \cup WorkspaceNames(last.manifest[1])) # {}

C6_Witness ==
    /\ last.op = "is_supported"
    /\ last.manifest # None
    /\ last.result.value
    /\ DirectNames(last.manifest[1]) = {"serde"}
    /\ WorkspaceNames(last.manifest[1]) = {"polkadot-sdk", "serde"}

====
